---- MODULE Spec2Model ----
(***************************************************************************)
(* Model of the Snowflake orders dashboard (src/app.py) and its data       *)
(* source adapter (src/snowflake_query.py).                                *)
(*                                                                         *)
(* Encoding of values:                                                     *)
(*   - a calendar date is the integer yyyymmdd (20200105 is 2020-01-05);   *)
(*   - a pandas Timestamp is the integer yyyymmddhh; ORDER_DATE holds      *)
(*     Timestamps, the sidebar and the SQL layer hold dates;               *)
(*   - a DataFrame is a sequence of rows (records keyed by column name);   *)
(*   - a float is an exact rational [num, den] in lowest terms, or one of  *)
(*     the strings "inf" / "NaN" that numpy division produces;             *)
(*   - amounts (TOTAL_PRICE) are integers.                                 *)
(***************************************************************************)
EXTENDS Integers, Sequences, FiniteSets

VARIABLES
    \* render pass of main() and the Filter Stage
    base_df, flt, df_filtered, pc_main, calls,
    \* aggregation sections
    df, kpi, yearly, pivot, status_cnt, enriched,
    \* st.cache_data around load_orders
    now, ticks, cache, last,
    \* render passes inside load_orders at the same time
    passes, lock, invocations,
    \* run_query
    cfg, conn_params, pc, conn, cur, exc, executed, result

mainVars  == <<base_df, flt, df_filtered, pc_main, calls>>
aggVars   == <<df, kpi, yearly, pivot, status_cnt, enriched>>
concVars  == <<passes, lock, invocations>>
cacheVars == <<now, ticks, cache, last, concVars>>
queryVars == <<cfg, conn_params, pc, conn, cur, exc, executed, result>>
vars == <<mainVars, aggVars, cacheVars, queryVars>>

\* "no value yet" for a record-valued variable
None == [none |-> TRUE]

\* ------------------------------------------------------------------ bounds

MaxRows == 3
MaxFilterRows == 2
MaxMainRows == 2
MaxTicks == 5
MaxPasses == 2

\* ------------------------------------------------------------- generic helpers

SeqsUpTo(S, n) == UNION {[1..k -> S] : k \in 0..n}

Range(s) == {s[i] : i \in 1..Len(s)}

RECURSIVE SumSeq(_)
SumSeq(s) == IF s = <<>> THEN 0 ELSE Head(s) + SumSeq(Tail(s))

RECURSIVE SetToSortedSeq(_)
SetToSortedSeq(S) ==
    IF S = {} THEN <<>>
    ELSE LET m == CHOOSE x \in S : \A y \in S : x <= y
         IN <<m>> \o SetToSortedSeq(S \ {m})

\* stable insertion sort of a sequence of integers (Series.sort_values)
RECURSIVE Insert(_, _)
Insert(x, s) ==
    IF s = <<>> THEN <<x>>
    ELSE IF x < Head(s) THEN <<x>> \o s
    ELSE <<Head(s)>> \o Insert(x, Tail(s))

RECURSIVE sort_values(_)
sort_values(s) ==
    IF s = <<>> THEN <<>> ELSE Insert(s[Len(s)], sort_values(SubSeq(s, 1, Len(s) - 1)))

Abs(x) == IF x < 0 THEN -x ELSE x

RECURSIVE Gcd(_, _)
Gcd(a, b) == IF b = 0 THEN a ELSE Gcd(b, a % b)

\* the float n/d (d # 0) as a rational in lowest terms with a positive denominator
Rat(n, d) ==
    LET g == Gcd(Abs(n), Abs(d))
        s == IF d < 0 THEN -1 ELSE 1
    IN [num |-> (s * n) \div g, den |-> (s * d) \div g]

Zero == Rat(0, 1)

\* ------------------------------------------------------------- dates

\* pd.to_datetime(date): the Timestamp at midnight of that date
to_datetime(d) == d * 100

\* Timestamp.date()
ts_date(ts) == ts \div 100

\* Series.dt.year
dt_year(ts) == ts \div 1000000

\* ------------------------------------------------------------- enrichment

STATUS_LABELS == [F |-> "Filled", O |-> "Open", P |-> "Pending"]

\* the variant that fills unmapped codes with a fixed text
StatusLabel_unknown(code) ==
    IF code \in DOMAIN STATUS_LABELS THEN STATUS_LABELS[code] ELSE "Unknown"

\* Series.map(STATUS_LABELS).fillna(Series): the label, or the raw code when unmapped
StatusLabel(code) ==
    IF code \in DOMAIN STATUS_LABELS THEN STATUS_LABELS[code] ELSE code

enrich_orders(t) ==
    IF t = <<>> THEN t
    ELSE [i \in 1..Len(t) |->
            [ORDER_KEY    |-> t[i].ORDER_KEY,
             ORDER_DATE   |-> t[i].ORDER_DATE,
             STATUS       |-> t[i].STATUS,
             PRIORITY     |-> t[i].PRIORITY,
             TOTAL_PRICE  |-> t[i].TOTAL_PRICE,
             STATUS_LABEL |-> StatusLabel(t[i].STATUS)]]

\* A result set of the ORDERS query: row i has the unique key i; O_ORDERDATE::date is
\* a date, which load_orders converts to a Timestamp before enriching.
RawRow(d, s, p, a) == [date |-> d, status |-> s, priority |-> p, amount |-> a]

RawRows(D, S, P, A) == {RawRow(d, s, p, a) : d \in D, s \in S, p \in P, a \in A}

Loaded(raw) ==
    enrich_orders([i \in 1..Len(raw) |->
            [ORDER_KEY   |-> i,
             ORDER_DATE  |-> to_datetime(raw[i].date),
             STATUS      |-> raw[i].status,
             PRIORITY    |-> raw[i].priority,
             TOTAL_PRICE |-> raw[i].amount]])

LoadedTables(R, n) == {Loaded(raw) : raw \in SeqsUpTo(R, n)}

\* ------------------------------------------------------------- Filter Stage

\* Series.isin(list)
isin(x, list) == x \in list

\* the strict-upper-bound variant of the date mask
apply_filters_strict_end(t, start_date, end_date, status_list, priority_list) ==
    IF t = <<>> THEN t
    ELSE LET mask(r) ==
                 /\ r.ORDER_DATE >= to_datetime(start_date)
                 /\ r.ORDER_DATE < to_datetime(end_date)
                 /\ (status_list # {} => isin(r.STATUS, status_list))
                 /\ (priority_list # {} => isin(r.PRIORITY, priority_list))
         IN SelectSeq(t, mask)

apply_filters(t, start_date, end_date, status_list, priority_list) ==
    IF t = <<>> THEN t
    ELSE LET mask0(r) == /\ r.ORDER_DATE >= to_datetime(start_date)
                         /\ r.ORDER_DATE <= to_datetime(end_date)
             mask1(r) == IF status_list # {}
                         THEN mask0(r) /\ isin(r.STATUS, status_list)
                         ELSE mask0(r)
             mask2(r) == IF priority_list # {}
                         THEN mask1(r) /\ isin(r.PRIORITY, priority_list)
                         ELSE mask1(r)
         IN SelectSeq(t, mask2)

\* ------------------------------------------------------------- idle components

MainIdle  == base_df = <<>> /\ flt = None /\ df_filtered = <<>> /\ pc_main = "idle" /\ calls = <<>>
AggIdle   == /\ df = <<>> /\ kpi = None /\ yearly = None /\ pivot = None /\ status_cnt = None
             /\ enriched = None
ConcIdle  == passes = <<>> /\ lock = None /\ invocations = <<>>
CacheIdle == now = 0 /\ ticks = 0 /\ cache = None /\ last = None /\ ConcIdle
QueryIdle == /\ cfg = None /\ conn_params = None /\ pc = "idle" /\ conn = "none" /\ cur = "none"
             /\ exc = None /\ executed = <<>> /\ result = None

\* ------------------------------------------------------------- SpecFilter

FilterDates == {20200105, 20200210, 20210120}
FilterStatuses == {"F", "O"}
FilterPriorities == {"HIGH", "LOW"}
FilterRows == RawRows(FilterDates, FilterStatuses, FilterPriorities, {100})

InitFilter ==
    /\ base_df \in LoadedTables(FilterRows, MaxFilterRows)
    /\ flt = None /\ df_filtered = <<>> /\ pc_main = "idle" /\ calls = <<>>
    /\ AggIdle /\ CacheIdle /\ QueryIdle

\* one call apply_filters(base_df, start_date, end_date, status_list, priority_list)
ApplyFilters ==
    \E start_date \in FilterDates, end_date \in FilterDates,
       status_list \in SUBSET FilterStatuses, priority_list \in SUBSET FilterPriorities :
        /\ flt = None
        /\ flt' = [start_date |-> start_date, end_date |-> end_date,
                   status_list |-> status_list, priority_list |-> priority_list]
        /\ df_filtered' = apply_filters(base_df, start_date, end_date,
                                        status_list, priority_list)
        /\ UNCHANGED <<base_df, pc_main, calls, aggVars, cacheVars, queryVars>>

NextFilter == ApplyFilters

SpecFilter == InitFilter /\ [][NextFilter]_vars

\* C1: apply_filters returns exactly the rows (in table order) whose ORDER_DATE lies in
\* [start_date, end_date], both bounds inclusive, and whose STATUS is in status_list
\* unless that list is empty, and whose PRIORITY is in priority_list unless that list
\* is empty; an empty input and a predicate no row satisfies yield the empty table.
C1_Selected(r) ==
    /\ flt.start_date <= ts_date(r.ORDER_DATE)
    /\ ts_date(r.ORDER_DATE) <= flt.end_date
    /\ (flt.status_list = {} \/ r.STATUS \in flt.status_list)
    /\ (flt.priority_list = {} \/ r.PRIORITY \in flt.priority_list)

C1_FilterExact ==
    flt # None =>
        /\ df_filtered = SelectSeq(base_df, C1_Selected)
        /\ (base_df = <<>> => df_filtered = <<>>)
        /\ ((\A i \in 1..Len(base_df) : ~C1_Selected(base_df[i])) => df_filtered = <<>>)

\* a call with an empty status_list and a priority selection that keeps a row dated
\* exactly end_date and drops the other row
C1_Witness ==
    /\ flt # None
    /\ flt.status_list = {} /\ flt.priority_list # {}
    /\ flt.start_date < flt.end_date
    /\ Len(df_filtered) = 1 /\ Len(base_df) = 2
    /\ ts_date(df_filtered[1].ORDER_DATE) = flt.end_date

\* ------------------------------------------------------------- Result Cache

\* @st.cache_data(ttl=600): seconds an entry is kept, counted from its computation
TTL == 600

\* the only key main() ever passes to load_orders
Keys == {<<"1992-01-01", "1998-12-31">>}

\* seconds that may pass between two events
Delays == {1, 300, 599}

CacheRows == RawRows({19950315}, {"F", "X"}, {"HIGH"}, {100})
QueryResults == SeqsUpTo(CacheRows, 1)

\* whether the entry stored for a key still serves a call made at time t
Fresh(entry, t) == entry # None /\ t - entry.computed_at < TTL

\* a read that restarts the entry's clock
OnHit_refresh(entry, t) == [entry EXCEPT !.computed_at = t]

\* what a cache hit at time t leaves stored
OnHit(entry, t) == entry

\* the body of load_orders on the result set run_query returned
load_orders_body(raw) == Loaded(raw)

InitCache ==
    /\ now = 0 /\ ticks = 0
    /\ cache = [k \in Keys |-> None]
    /\ last = None /\ ConcIdle
    /\ MainIdle /\ AggIdle /\ QueryIdle

Tick ==
    \E d \in Delays :
        /\ ticks < MaxTicks
        /\ now' = now + d
        /\ ticks' = ticks + 1
        /\ UNCHANGED <<cache, last, concVars, mainVars, aggVars, queryVars>>

CallRecord(k, hit, ran, raised, value, old, query_at) ==
    [key |-> k, at |-> now, hit |-> hit, ran_query |-> ran, raised |-> raised,
     value |-> value,
     entry_at |-> IF old = None THEN -1 ELSE old.computed_at,
     entry_value |-> IF old = None THEN <<>> ELSE old.value,
     query_at |-> query_at]

LastQueryAt == IF last = None THEN -1 ELSE last.query_at

\* load_orders(*k) served from the cache
LoadOrdersHit(k) ==
    /\ Fresh(cache[k], now)
    /\ cache' = [cache EXCEPT ![k] = OnHit(cache[k], now)]
    /\ last' = CallRecord(k, TRUE, FALSE, FALSE, cache[k].value, cache[k], LastQueryAt)
    /\ UNCHANGED <<now, ticks, concVars, mainVars, aggVars, queryVars>>

\* load_orders(*k) computed: run_query returns a result set, which is converted,
\* enriched and stored
LoadOrdersMiss(k) ==
    /\ ~Fresh(cache[k], now)
    /\ \E raw \in QueryResults :
        /\ cache' = [cache EXCEPT ![k] = [value |-> load_orders_body(raw),
                                          computed_at |-> now]]
        /\ last' = CallRecord(k, FALSE, TRUE, FALSE, load_orders_body(raw), cache[k], now)
    /\ UNCHANGED <<now, ticks, concVars, mainVars, aggVars, queryVars>>

\* load_orders(*k) computed, and run_query raises: nothing is stored
LoadOrdersRaise(k) ==
    /\ ~Fresh(cache[k], now)
    /\ last' = CallRecord(k, FALSE, TRUE, TRUE, <<>>, cache[k], LastQueryAt)
    /\ UNCHANGED <<cache, now, ticks, concVars, mainVars, aggVars, queryVars>>

NextCache ==
    \/ Tick
    \/ \E k \in Keys : LoadOrdersHit(k)
    \/ \E k \in Keys : LoadOrdersMiss(k)
    \/ \E k \in Keys : LoadOrdersRaise(k)

SpecCache == InitCache /\ [][NextCache]_vars

\* C2: a load_orders call made less than 600 s after the entry for its key was computed
\* returns the stored table and does not invoke run_query; a call made more than 600 s
\* after it invokes run_query and, when run_query returns, stores a fresh entry; the
\* stored entry's computation time is always that of the latest run_query that
\* returned, so no hit ever extends the expiry.
C2_FixedTtl ==
    /\ last # None =>
        /\ (last.entry_at >= 0 /\ last.at - last.entry_at < 600) =>
              /\ last.hit /\ ~last.ran_query /\ ~last.raised
              /\ last.value = last.entry_value
              /\ cache[last.key].value = last.entry_value
        /\ (last.entry_at >= 0 /\ last.at - last.entry_at > 600) =>
              /\ ~last.hit /\ last.ran_query
              /\ (~last.raised =>
                    cache[last.key] = [value |-> last.value, computed_at |-> last.at])
        /\ (last.entry_at < 0) => last.ran_query
    /\ \A k \in Keys : cache[k] # None => cache[k].computed_at = LastQueryAt

\* an entry computed at some time, read 599 s later (a hit), and recomputed by a call
\* made more than 600 s after the first computation but less than 600 s after the hit
C2_Witness ==
    /\ last # None
    /\ ~last.hit /\ last.ran_query /\ ~last.raised
    /\ last.entry_at >= 0
    /\ last.at - last.entry_at > 600
    /\ last.at - last.entry_at < 610
    /\ last.value # last.entry_value

\* ------------------------------------------------------------- arithmetic of the sections

\* Python's a / b on numbers: raises ZeroDivisionError when b is 0
ZeroDivisionError == [error |-> "ZeroDivisionError"]
PyDiv(a, b) == IF b = 0 THEN ZeroDivisionError ELSE Rat(a, b)

\* numpy's elementwise a / b on float64: 0/0 is NaN, x/0 is +-inf
NaN == [nan |-> TRUE]
Inf(sign) == [inf |-> sign]
NpDiv(a, b) ==
    IF b # 0 THEN Rat(a, b)
    ELSE IF a = 0 THEN NaN
    ELSE Inf(IF a > 0 THEN 1 ELSE -1)

Column(t, c) == [i \in 1..Len(t) |-> t[i][c]]

\* Series.quantile(qn/qd) with linear interpolation, on a non-empty series
quantile(values, qn, qd) ==
    LET s == sort_values(values)
        k == qn * (Len(s) - 1)
        lo == (k \div qd) + 1
        frac == k % qd
        hi == IF frac = 0 THEN lo ELSE lo + 1
    IN Rat(qd * s[lo] + frac * (s[hi] - s[lo]), qd)

\* Series.median() on a non-empty series
median(values) == quantile(values, 1, 2)

\* ------------------------------------------------------------- KPI summary

\* the variant that divides without looking at the denominators
kpi_section_unguarded(t) ==
    LET total_orders == Len(t)
        total_amount == IF t # <<>> THEN SumSeq(Column(t, "TOTAL_PRICE")) ELSE 0
        distinct_days == IF t # <<>> THEN Cardinality(Range(Column(t, "ORDER_DATE"))) ELSE 0
    IN [total_orders       |-> total_orders,
        total_amount       |-> total_amount,
        avg_order_value    |-> PyDiv(total_amount, total_orders),
        distinct_days      |-> distinct_days,
        orders_per_day     |-> PyDiv(total_orders, distinct_days),
        median_order_value |-> IF t # <<>> THEN median(Column(t, "TOTAL_PRICE")) ELSE Zero,
        p90_order_value    |-> IF t # <<>> THEN quantile(Column(t, "TOTAL_PRICE"), 9, 10)
                               ELSE Zero,
        denominators       |-> {total_orders, distinct_days}]

\* the values kpi_section computes, and the denominators it divided by on the way
kpi_section(t) ==
    LET total_orders == Len(t)
        total_amount == IF t # <<>> THEN SumSeq(Column(t, "TOTAL_PRICE")) ELSE 0
        distinct_days == IF t # <<>> THEN Cardinality(Range(Column(t, "ORDER_DATE"))) ELSE 0
    IN [total_orders       |-> total_orders,
        total_amount       |-> total_amount,
        avg_order_value    |-> IF total_orders > 0 THEN PyDiv(total_amount, total_orders)
                               ELSE Zero,
        distinct_days      |-> distinct_days,
        orders_per_day     |-> IF distinct_days > 0 THEN PyDiv(total_orders, distinct_days)
                               ELSE Zero,
        median_order_value |-> IF t # <<>> THEN median(Column(t, "TOTAL_PRICE")) ELSE Zero,
        p90_order_value    |-> IF t # <<>> THEN quantile(Column(t, "TOTAL_PRICE"), 9, 10)
                               ELSE Zero,
        denominators       |-> (IF total_orders > 0 THEN {total_orders} ELSE {})
                               \cup (IF distinct_days > 0 THEN {distinct_days} ELSE {})]

KpiSection ==
    /\ kpi = None
    /\ kpi' = kpi_section(df)
    /\ UNCHANGED <<df, yearly, pivot, status_cnt, enriched, mainVars, cacheVars, queryVars>>

KpiRows == RawRows({20200105, 20200210}, {"F"}, {"HIGH"}, {0, 100, 300})

InitKpi ==
    /\ df \in LoadedTables(KpiRows, MaxRows)
    /\ kpi = None /\ yearly = None /\ pivot = None /\ status_cnt = None /\ enriched = None
    /\ MainIdle /\ CacheIdle /\ QueryIdle

NextKpi == KpiSection

SpecKpi == InitKpi /\ [][NextKpi]_vars

\* C3: on an empty table every numeric field of the KPI summary is 0 and no division
\* is performed; on any table no division has a zero denominator, and the average order
\* value and the orders per active day are quotients exactly when their denominators
\* are greater than 0.
C3_KpiZeroSafe ==
    kpi # None =>
        /\ df = <<>> =>
              /\ kpi.total_orders = 0 /\ kpi.total_amount = 0
              /\ kpi.avg_order_value = Zero
              /\ kpi.distinct_days = 0 /\ kpi.orders_per_day = Zero
              /\ kpi.median_order_value = Zero /\ kpi.p90_order_value = Zero
              /\ kpi.denominators = {}
        /\ \A d \in kpi.denominators : d > 0
        /\ kpi.avg_order_value # ZeroDivisionError
        /\ kpi.orders_per_day # ZeroDivisionError
        /\ kpi.total_orders > 0 =>
              kpi.avg_order_value.num * kpi.total_orders
                  = kpi.total_amount * kpi.avg_order_value.den
        /\ kpi.distinct_days > 0 =>
              kpi.orders_per_day.num * kpi.distinct_days
                  = kpi.total_orders * kpi.orders_per_day.den

\* the KPI summary of the empty table has been computed
C3_Witness == kpi # None /\ df = <<>> /\ kpi.total_orders = 0

\* ------------------------------------------------------------- status / priority mix

\* what a section leaves behind when its "if df.empty: return" fires
Skipped == [rendered |-> FALSE]

RECURSIVE SumOver(_, _)
SumOver(f, S) ==
    IF S = {} THEN 0
    ELSE LET x == CHOOSE y \in S : TRUE
         IN f[x] + SumOver(f, S \ {x})

\* rows of t whose column c equals v (one group of a groupby)
Group(t, c, v) == LET in_group(r) == r[c] = v IN SelectSeq(t, in_group)

\* the variant with aggfunc="last": a cell holds the last TOTAL_PRICE of its group
heatmap_section_last(t) ==
    IF t = <<>> THEN Skipped
    ELSE LET index == Range(Column(t, "PRIORITY"))
             columns == Range(Column(t, "STATUS"))
             cell(p, c) == Column(Group(Group(t, "PRIORITY", p), "STATUS", c), "TOTAL_PRICE")
         IN [rendered |-> TRUE, index |-> index, columns |-> columns,
             values |-> [x \in index \X columns |->
                            IF cell(x[1], x[2]) = <<>> THEN 0
                            ELSE cell(x[1], x[2])[Len(cell(x[1], x[2]))]]]

\* pivot_table(index="PRIORITY", columns="STATUS", values="TOTAL_PRICE", aggfunc="sum",
\* fill_value=0)
heatmap_section(t) ==
    IF t = <<>> THEN Skipped
    ELSE LET index == Range(Column(t, "PRIORITY"))
             columns == Range(Column(t, "STATUS"))
             cell(p, c) == Column(Group(Group(t, "PRIORITY", p), "STATUS", c), "TOTAL_PRICE")
         IN [rendered |-> TRUE, index |-> index, columns |-> columns,
             values |-> [x \in index \X columns |->
                            IF cell(x[1], x[2]) = <<>> THEN 0
                            ELSE SumSeq(cell(x[1], x[2]))]]

\* the variant that counts the distinct order values of each status
distribution_section_nunique(t) ==
    IF t = <<>> THEN Skipped
    ELSE LET statuses == Range(Column(t, "STATUS"))
         IN [rendered |-> TRUE,
             status_cnt |-> [v \in statuses |->
                 Cardinality(Range(Column(Group(t, "STATUS", v), "TOTAL_PRICE")))]]

\* df.groupby("STATUS")["ORDER_KEY"].count()
distribution_section(t) ==
    IF t = <<>> THEN Skipped
    ELSE LET statuses == Range(Column(t, "STATUS"))
         IN [rendered |-> TRUE,
             status_cnt |-> [v \in statuses |->
                 Len(Column(Group(t, "STATUS", v), "ORDER_KEY"))]]

HeatmapSection ==
    /\ pivot = None
    /\ pivot' = heatmap_section(df)
    /\ UNCHANGED <<df, kpi, yearly, status_cnt, enriched, mainVars, cacheVars, queryVars>>

DistributionSection ==
    /\ status_cnt = None
    /\ status_cnt' = distribution_section(df)
    /\ UNCHANGED <<df, kpi, yearly, pivot, enriched, mainVars, cacheVars, queryVars>>

MixRows == RawRows({20200105}, {"F", "O"}, {"HIGH", "LOW"}, {100, 250})

InitMix ==
    /\ df \in LoadedTables(MixRows, MaxRows)
    /\ kpi = None /\ yearly = None /\ pivot = None /\ status_cnt = None /\ enriched = None
    /\ MainIdle /\ CacheIdle /\ QueryIdle

NextMix == KpiSection \/ HeatmapSection \/ DistributionSection

SpecMix == InitMix /\ [][NextMix]_vars

\* C6: the cells of the status x priority revenue matrix (PRIORITY rows, STATUS columns,
\* absent combinations 0) add up to the total revenue of the KPI summary of the same
\* table; on the empty table no matrix is built and the total revenue is 0.
C6_PivotTotal ==
    (kpi # None /\ pivot # None) =>
        IF pivot.rendered
        THEN SumOver(pivot.values, pivot.index \X pivot.columns) = kpi.total_amount
        ELSE kpi.total_amount = 0

\* a matrix with a zero-filled cell and a cell that sums two orders
C6_Witness ==
    /\ kpi # None /\ pivot # None /\ pivot.rendered
    /\ Cardinality(pivot.index \X pivot.columns) = 4
    /\ \E x \in pivot.index \X pivot.columns : pivot.values[x] = 0
    /\ \E x \in pivot.index \X pivot.columns : pivot.values[x] = 350

\* C7: the per-status order counts of distribution_section add up to the total order
\* count of the KPI summary of the same table; on the empty table no counts are built
\* and the total is 0.
C7_StatusCounts ==
    (kpi # None /\ status_cnt # None) =>
        IF status_cnt.rendered
        THEN SumOver(status_cnt.status_cnt, DOMAIN status_cnt.status_cnt)
                 = kpi.total_orders
        ELSE kpi.total_orders = 0

\* two statuses, one of them counting two orders of the same value
C7_Witness ==
    /\ kpi # None /\ status_cnt # None /\ status_cnt.rendered
    /\ DOMAIN status_cnt.status_cnt = {"F", "O"}
    /\ status_cnt.status_cnt["F"] = 2
    /\ Cardinality(Range(Column(df, "TOTAL_PRICE"))) = 1

\* ------------------------------------------------------------- yearly trend

\* (q - 1) * 100.0 on a float64 quotient: NaN and inf stay NaN and inf
PctOfRatio(q) ==
    IF q = NaN \/ q = Inf(1) \/ q = Inf(-1) THEN q
    ELSE Rat((q.num - q.den) * 100, q.den)

\* Series.pct_change() * 100.0: row 1 has no previous row (NaN), row i > 1 is
\* values[i] / values[i-1] - 1
pct_change_x100(values) ==
    [i \in 1..Len(values) |->
        IF i = 1 THEN NaN ELSE PctOfRatio(NpDiv(values[i], values[i - 1]))]

\* DataFrame.dropna(subset=[c])
dropna(t, c) == LET present(r) == r[c] # NaN IN SelectSeq(t, present)

yearly_trend_section(t) ==
    IF t = <<>> THEN Skipped
    ELSE LET years == SetToSortedSeq({dt_year(t[i].ORDER_DATE) : i \in 1..Len(t)})
             rows_of(y) == LET in_year(r) == dt_year(r.ORDER_DATE) = y
                           IN SelectSeq(t, in_year)
             total_amount == [i \in 1..Len(years) |->
                                 SumSeq(Column(rows_of(years[i]), "TOTAL_PRICE"))]
             revenue_yoy == pct_change_x100(total_amount)
             df_year == [i \in 1..Len(years) |->
                            [year         |-> years[i],
                             order_cnt    |-> Len(Column(rows_of(years[i]), "ORDER_KEY")),
                             total_amount |-> total_amount[i],
                             revenue_yoy  |-> revenue_yoy[i]]]
         IN [rendered |-> TRUE, df_year |-> df_year, df_yoy |-> dropna(df_year, "revenue_yoy")]

YearlyTrendSection ==
    /\ yearly = None
    /\ yearly' = yearly_trend_section(df)
    /\ UNCHANGED <<df, kpi, pivot, status_cnt, enriched, mainVars, cacheVars, queryVars>>

YearRows == RawRows({20200105, 20200210, 20210120, 20220315}, {"F"}, {"HIGH"},
                    {0, 100, 200, 300})

InitYearly ==
    /\ df \in LoadedTables(YearRows, MaxRows)
    /\ kpi = None /\ yearly = None /\ pivot = None /\ status_cnt = None /\ enriched = None
    /\ MainIdle /\ CacheIdle /\ QueryIdle

NextYearly == YearlyTrendSection

SpecYearly == InitYearly /\ [][NextYearly]_vars

YearsPresent == {dt_year(df[i].ORDER_DATE) : i \in 1..Len(df)}

EarliestYear == CHOOSE y \in YearsPresent : \A z \in YearsPresent : y <= z

\* C4: for a non-empty table with N distinct years, the plotted year-over-year series
\* df_yoy has exactly N-1 entries, one for each year except the earliest, whatever the
\* per-year revenues are (years of revenue 0 included).
C4_YoyLength ==
    (yearly # None /\ df # <<>>) =>
        /\ Len(yearly.df_yoy) = Cardinality(YearsPresent) - 1
        /\ {yearly.df_yoy[i].year : i \in 1..Len(yearly.df_yoy)}
               = YearsPresent \ {EarliestYear}

\* the orders of the spec's scenario: (2020-01-05, 100), (2020-02-10, 200), (2021-01-20, 300)
ScenarioOrders ==
    Loaded(<<RawRow(20200105, "F", "HIGH", 100), RawRow(20200210, "F", "HIGH", 200),
             RawRow(20210120, "F", "HIGH", 300)>>)

\* the yearly trend has one row per year present, in ascending year order, holding
\* that year's order count and summed TOTAL_PRICE
C5_TrendRows ==
    LET t == yearly.df_year
        in_year(y) == {i \in 1..Len(df) : dt_year(df[i].ORDER_DATE) = y}
    IN /\ {t[i].year : i \in 1..Len(t)} = YearsPresent
       /\ \A i \in 1..Len(t) - 1 : t[i].year < t[i + 1].year
       /\ \A i \in 1..Len(t) :
            /\ t[i].order_cnt = Cardinality(in_year(t[i].year))
            /\ t[i].total_amount = SumOver([k \in 1..Len(df) |-> df[k].TOTAL_PRICE],
                                           in_year(t[i].year))

\* the spec's scenario: trend {2020: 2, 300}, {2021: 1, 300}; YoY series {2021: 0}
C5_Scenario ==
    df = ScenarioOrders =>
        /\ yearly.df_year = <<[year |-> 2020, order_cnt |-> 2, total_amount |-> 300,
                               revenue_yoy |-> NaN],
                              [year |-> 2021, order_cnt |-> 1, total_amount |-> 300,
                               revenue_yoy |-> Zero]>>
        /\ yearly.df_yoy = <<[year |-> 2021, order_cnt |-> 1, total_amount |-> 300,
                              revenue_yoy |-> Zero]>>

\* C5: the yearly trend has one row per calendar year present (count and summed
\* TOTAL_PRICE, ascending); for each year y except the earliest, the calendar year y-1
\* is the one its YoY value is measured against: YoY = (revenue[y] - revenue[y-1]) /
\* revenue[y-1] * 100 (stated where revenue[y-1] is not 0); and the three-order
\* scenario yields {2020: 2, 300}, {2021: 1, 300} and the YoY series {2021: 0}.
C5_YoyAgainstPrecedingCalendarYear ==
    (yearly # None /\ df # <<>>) =>
        /\ C5_TrendRows
        /\ C5_Scenario
        /\ \A i \in 2..Len(yearly.df_year) :
              LET t == yearly.df_year
              IN \E j \in 1..Len(t) :
                    /\ t[j].year = t[i].year - 1
                    /\ t[j].total_amount # 0 =>
                          t[i].revenue_yoy =
                              Rat((t[i].total_amount - t[j].total_amount) * 100,
                                  t[j].total_amount)

\* what the code does: each YoY value is measured against the previous row of the
\* trend, i.e. the nearest earlier year present
C5_YoyAgainstPreviousRow ==
    (yearly # None /\ df # <<>>) =>
        /\ C5_TrendRows
        /\ C5_Scenario
        /\ \A i \in 2..Len(yearly.df_year) :
              LET t == yearly.df_year
              IN t[i - 1].total_amount # 0 =>
                    t[i].revenue_yoy =
                        Rat((t[i].total_amount - t[i - 1].total_amount) * 100,
                            t[i - 1].total_amount)

\* ------------------------------------------------------------- Data Source Adapter

RequiredFields == <<"user", "password", "account">>
OptionalFields == {"warehouse", "database", "schema"}

\* the environment variable read for a field
EnvName(f) ==
    CASE f = "user" -> "SNOWFLAKE_USER"
      [] f = "password" -> "SNOWFLAKE_PASSWORD"
      [] f = "account" -> "SNOWFLAKE_ACCOUNT"

\* A configuration: where it comes from ("secrets" when st.secrets has a "snowflake"
\* section, else "env"), which required fields it holds, and which optional fields it
\* sets to the empty string (the others are absent and take their defaults).
Configurations ==
    [source : {"secrets", "env"},
     present : SUBSET Range(RequiredFields),
     blank : SUBSET OptionalFields]

FirstMissing(c) ==
    LET i == CHOOSE k \in 1..Len(RequiredFields) :
                 /\ RequiredFields[k] \notin c.present
                 /\ \A j \in 1..(k - 1) : RequiredFields[j] \in c.present
    IN RequiredFields[i]

Params(c) == [f \in OptionalFields |-> IF f \in c.blank THEN "" ELSE "default"]

\* the variant that reads required fields with a default (s.get / os.getenv)
get_connection_params_lenient(c) == [ok |-> TRUE, params |-> Params(c)]

\* _get_connection_params: the parameters, or the exception it raises. s["user"] on
\* the secrets section raises the mapping's KeyError for that key; os.environ[...]
\* raises KeyError, which is re-raised as RuntimeError("Missing Snowflake
\* configuration for '<variable>' ...").
get_connection_params(c) ==
    IF Range(RequiredFields) \subseteq c.present
    THEN [ok |-> TRUE, params |-> Params(c)]
    ELSE IF c.source = "secrets"
    THEN [ok |-> FALSE,
          error |-> [type |-> "KeyError", names |-> FirstMissing(c)]]
    ELSE [ok |-> FALSE,
          error |-> [type |-> "RuntimeError", names |-> EnvName(FirstMissing(c))]]

\* where control goes when a statement fails inside "try: ... finally: cur.close()"
OnUseFailure == "cur_close"

\* the variant of the outer block without "finally: conn.close()"
OnQueryFailure_leak == "raised"

\* where control goes when pd.read_sql fails inside "try: ... finally: conn.close()"
OnQueryFailure == "conn_close"

Attempt(stmt, ok) == [stmt |-> stmt, ok |-> ok]

InitQuery ==
    /\ cfg \in Configurations
    /\ conn_params = None /\ pc = "params" /\ conn = "none" /\ cur = "none"
    /\ exc = None /\ executed = <<>> /\ result = None
    /\ MainIdle /\ AggIdle /\ CacheIdle

\* conn_params = _get_connection_params()
GetParams ==
    /\ pc = "params"
    /\ LET got == get_connection_params(cfg)
       IN \/ /\ got.ok
             /\ conn_params' = got.params
             /\ pc' = "connect"
             /\ exc' = exc
          \/ /\ ~got.ok
             /\ exc' = got.error
             /\ pc' = "raised"
             /\ conn_params' = conn_params
    /\ UNCHANGED <<cfg, conn, cur, executed, result, mainVars, aggVars, cacheVars>>

\* conn = snowflake.connector.connect(**conn_params)
Connect ==
    /\ pc = "connect"
    /\ \/ conn' = "open" /\ pc' = "cursor" /\ exc' = exc
       \/ conn' = conn /\ pc' = "raised" /\ exc' = [type |-> "DatabaseError", names |-> "connect"]
    /\ UNCHANGED <<cfg, conn_params, cur, executed, result, mainVars, aggVars, cacheVars>>

\* cur = conn.cursor()
Cursor ==
    /\ pc = "cursor"
    /\ cur' = "open"
    /\ pc' = "use_warehouse"
    /\ UNCHANGED <<cfg, conn_params, conn, exc, executed, result, mainVars, aggVars, cacheVars>>

\* if <field>: cur.execute('USE <FIELD> "..."')
Use(at, field, stmt, next) ==
    /\ pc = at
    /\ \/ /\ conn_params[field] = ""
          /\ pc' = next
          /\ UNCHANGED <<executed, exc>>
       \/ /\ conn_params[field] # ""
          /\ executed' = Append(executed, Attempt(stmt, TRUE))
          /\ pc' = next
          /\ exc' = exc
       \/ /\ conn_params[field] # ""
          /\ executed' = Append(executed, Attempt(stmt, FALSE))
          /\ exc' = [type |-> "ProgrammingError", names |-> stmt]
          /\ pc' = OnUseFailure
    /\ UNCHANGED <<cfg, conn_params, conn, cur, result, mainVars, aggVars, cacheVars>>

UseWarehouse == Use("use_warehouse", "warehouse", "USE WAREHOUSE", "use_database")
UseDatabase == Use("use_database", "database", "USE DATABASE", "use_schema")
UseSchema == Use("use_schema", "schema", "USE SCHEMA", "cur_close")

\* finally: cur.close()
CurClose ==
    /\ pc = "cur_close"
    /\ cur' = "closed"
    /\ pc' = IF exc # None THEN "conn_close" ELSE "read_sql"
    /\ UNCHANGED <<cfg, conn_params, conn, exc, executed, result, mainVars, aggVars, cacheVars>>

\* df = pd.read_sql(sql, conn, params=params)
ReadSql ==
    /\ pc = "read_sql"
    /\ \/ /\ \E raw \in QueryResults : result' = [df |-> raw]
          /\ executed' = Append(executed, Attempt("SELECT", TRUE))
          /\ pc' = "conn_close"
          /\ exc' = exc
       \/ /\ executed' = Append(executed, Attempt("SELECT", FALSE))
          /\ exc' = [type |-> "DatabaseError", names |-> "SELECT"]
          /\ pc' = OnQueryFailure
          /\ result' = result
    /\ UNCHANGED <<cfg, conn_params, conn, cur, mainVars, aggVars, cacheVars>>

\* finally: conn.close(), then "return df" or the pending exception leaves run_query
ConnClose ==
    /\ pc = "conn_close"
    /\ conn' = "closed"
    /\ pc' = IF exc # None THEN "raised" ELSE "returned"
    /\ UNCHANGED <<cfg, conn_params, cur, exc, executed, result, mainVars, aggVars, cacheVars>>

NextQuery ==
    \/ GetParams \/ Connect \/ Cursor
    \/ UseWarehouse \/ UseDatabase \/ UseSchema
    \/ CurClose \/ ReadSql \/ ConnClose

SpecQuery == InitQuery /\ [][NextQuery]_vars

MissingRequired == ~(Range(RequiredFields) \subseteq cfg.present)

\* C8: when a required connection field (user, password, account) is missing, from the
\* secrets section or from the environment, run_query fails with an error that names
\* the first missing field (the environment path names its variable, in a RuntimeError),
\* and no connection is opened and no statement executed, before or after the failure.
C8_ConfigErrorFirst ==
    MissingRequired =>
        /\ pc \in {"params", "raised"}
        /\ conn = "none" /\ cur = "none" /\ executed = <<>> /\ result = None
        /\ pc = "raised" =>
              /\ exc # None
              /\ cfg.source = "secrets" => exc.names = FirstMissing(cfg)
              /\ cfg.source = "env" =>
                    /\ exc.type = "RuntimeError"
                    /\ exc.names = EnvName(FirstMissing(cfg))

\* run_query has failed on a secrets section that holds user but no password
C8_Witness ==
    /\ pc = "raised"
    /\ cfg.source = "secrets"
    /\ "user" \in cfg.present /\ "password" \notin cfg.present
    /\ exc.names = "password"

Statements(log) == {log[i].stmt : i \in 1..Len(log)}

\* C9: when a USE statement or the main query fails after a successful connect, that
\* failure is what leaves run_query: it is the last statement attempted (nothing runs
\* after it), no statement is attempted twice, no DataFrame is returned, the pending
\* exception is the one the failed statement raised, and cursor and connection are
\* closed by then.
C9_FailurePropagates ==
    /\ Cardinality(Statements(executed)) = Len(executed)
    /\ \A i \in 1..(Len(executed) - 1) : executed[i].ok
    /\ (pc = "raised" /\ conn # "none") =>
          /\ executed # <<>>
          /\ ~executed[Len(executed)].ok
          /\ exc = [type |-> IF exc.names = "SELECT" THEN "DatabaseError"
                             ELSE "ProgrammingError",
                    names |-> executed[Len(executed)].stmt]
          /\ result = None
          /\ cur = "closed"
          /\ conn = "closed"
    /\ pc = "returned" => (exc = None /\ result # None /\ conn = "closed")

\* the main query has failed after the three USE statements ran, and the failure has
\* left run_query
C9_Witness ==
    /\ pc = "raised"
    /\ Len(executed) = 4
    /\ exc.names = "SELECT"
    /\ conn = "closed"

\* ------------------------------------------------------------- render pass of main()

MainDates == {20200105, 20200210, 20210120}
MainRows == RawRows(MainDates, {"F", "O"}, {"HIGH"}, {100})

\* the days the date picker offers: the order dates, a day without orders between
\* them, and the picker's defaults for an empty table (date(1992, 1, 1), date(1998, 12, 31))
Calendar == MainDates \cup {20200120, 19920101, 19981231}

SetMin(S) == CHOOSE x \in S : \A y \in S : x <= y
SetMax(S) == CHOOSE x \in S : \A y \in S : x >= y

\* sidebar_filters: the selections a user can make for the loaded table
SidebarChoices(t) ==
    LET dates == {ts_date(t[i].ORDER_DATE) : i \in 1..Len(t)}
        min_date == IF t # <<>> THEN SetMin(dates) ELSE 19920101
        max_date == IF t # <<>> THEN SetMax(dates) ELSE 19981231
        status_options == IF t # <<>> THEN Range(Column(t, "STATUS")) ELSE {}
        priority_options == IF t # <<>> THEN Range(Column(t, "PRIORITY")) ELSE {}
    IN {c \in [start_date : Calendar, end_date : Calendar,
               status_list : SUBSET status_options,
               priority_list : SUBSET priority_options] :
            /\ min_date <= c.start_date
            /\ c.start_date <= c.end_date
            /\ c.end_date <= max_date}

\* a pass that never takes the early return
EmptyGuard_never(t) == FALSE

\* if df_filtered.empty: warn and return
EmptyGuard(t) == t = <<>>

OverviewSections ==
    <<"kpi_section", "yearly_trend_section", "yearly_month_comparison_section",
      "status_trend_section", "sample_table_section">>

YearSections ==
    <<"kpi_section", "time_series_section", "distribution_section",
      "status_priority_comparison_section", "value_distribution_section">>

\* the calls section(t) made on one tab, in order
SectionCalls(tab, names, t) ==
    [i \in 1..Len(names) |-> [section |-> names[i], tab |-> tab, rows |-> Len(t)]]

\* the calls of "for idx, year in enumerate(years, start=1)" from position k on
RECURSIVE YearCalls(_, _, _)
YearCalls(t, years, k) ==
    IF k > Len(years) THEN <<>>
    ELSE LET in_year(r) == dt_year(r.ORDER_DATE) = years[k]
         IN SectionCalls(years[k], YearSections, SelectSeq(t, in_year))
                \o YearCalls(t, years, k + 1)

InitMain ==
    /\ base_df = <<>> /\ flt = None /\ df_filtered = <<>> /\ pc_main = "load" /\ calls = <<>>
    /\ AggIdle /\ CacheIdle /\ QueryIdle

\* base_df = load_orders("1992-01-01", "1998-12-31") returns a table
Load ==
    /\ pc_main = "load"
    /\ base_df' \in LoadedTables(MainRows, MaxMainRows)
    /\ pc_main' = "sidebar"
    /\ UNCHANGED <<flt, df_filtered, calls, aggVars, cacheVars, queryVars>>

\* load_orders raises (run_query failed): the pass ends with the exception
LoadRaises ==
    /\ pc_main = "load"
    /\ pc_main' = "error"
    /\ UNCHANGED <<base_df, flt, df_filtered, calls, aggVars, cacheVars, queryVars>>

Sidebar ==
    /\ pc_main = "sidebar"
    /\ flt' \in SidebarChoices(base_df)
    /\ pc_main' = "filter"
    /\ UNCHANGED <<base_df, df_filtered, calls, aggVars, cacheVars, queryVars>>

Filter ==
    /\ pc_main = "filter"
    /\ df_filtered' = apply_filters(base_df, flt.start_date, flt.end_date,
                                    flt.status_list, flt.priority_list)
    /\ pc_main' = "check"
    /\ UNCHANGED <<base_df, flt, calls, aggVars, cacheVars, queryVars>>

\* the early return with st.warning("No data for the current filters. ...")
WarnAndReturn ==
    /\ pc_main = "check"
    /\ EmptyGuard(df_filtered)
    /\ calls' = Append(calls, [section |-> "st.warning", tab |-> "none", rows |-> 0])
    /\ pc_main' = "warned"
    /\ UNCHANGED <<base_df, flt, df_filtered, aggVars, cacheVars, queryVars>>

\* with tabs[0]: the Overview sections on df_filtered
Overview ==
    /\ pc_main = "check"
    /\ ~EmptyGuard(df_filtered)
    /\ calls' = calls \o SectionCalls("Overview", OverviewSections, df_filtered)
    /\ pc_main' = "years"
    /\ UNCHANGED <<base_df, flt, df_filtered, aggVars, cacheVars, queryVars>>

\* the per-year tabs, one after the other, each on the rows of its year
YearTabs ==
    /\ pc_main = "years"
    /\ LET years == SetToSortedSeq({dt_year(df_filtered[i].ORDER_DATE) :
                                        i \in 1..Len(df_filtered)})
       IN calls' = calls \o YearCalls(df_filtered, years, 1)
    /\ pc_main' = "done"
    /\ UNCHANGED <<base_df, flt, df_filtered, aggVars, cacheVars, queryVars>>

NextMain == Load \/ LoadRaises \/ Sidebar \/ Filter \/ WarnAndReturn \/ Overview \/ YearTabs

SpecMain == InitMain /\ [][NextMain]_vars

\* C10: in every render pass, an empty filtered table leads to the no-data warning and
\* to nothing else (no KPI, chart or sample section is called), and the warning is shown
\* only then; every section main calls, on the Overview tab and on each year's tab,
\* receives a non-empty table.
C10_NoSectionOnEmpty ==
    /\ \A i \in 1..Len(calls) : calls[i].section # "st.warning" => calls[i].rows > 0
    /\ (pc_main \in {"warned", "years", "done"} /\ df_filtered = <<>>) =>
          /\ pc_main = "warned"
          /\ calls = <<[section |-> "st.warning", tab |-> "none", rows |-> 0]>>
    /\ pc_main = "warned" => df_filtered = <<>>
    /\ pc_main = "done" =>
          /\ Len(calls) >= Len(OverviewSections) + Len(YearSections)
          /\ \A i \in 1..Len(calls) : calls[i].section # "st.warning"

\* a pass over a non-empty loaded table whose date range holds no order: warned
C10_Witness ==
    /\ pc_main = "warned"
    /\ base_df # <<>>
    /\ df_filtered = <<>>
    /\ Len(calls) = 1

\* ------------------------------------------------------------- concurrent render passes

\* Several sessions run main() at once and are inside load_orders with the same key
\* during one TTL window (the clock does not move while they overlap). A pass looks the
\* key up; on a miss it takes the key's compute lock, looks the key up again, and only
\* then runs the function body (run_query), stores the result and releases the lock.
Passes == 1..MaxPasses

\* an entry computed at time 0, as a pass finds it at the start of the overlap
EarlierEntry == [value |-> Loaded(<<RawRow(19950315, "F", "HIGH", 100)>>), computed_at |-> 0]

\* a cache without a compute lock: every pass that missed computes
LockFree_nolock(l, k) == TRUE

\* whether the compute lock of key k can be taken
LockFree(l, k) == l[k] = 0

PassState(at, via, value) == [pc |-> at, via |-> via, value |-> value]

InitConcurrent ==
    /\ now \in {0, TTL - 1, TTL}
    /\ ticks = 0 /\ last = None
    /\ cache \in [Keys -> {None, EarlierEntry}]
    /\ passes = [p \in Passes |-> PassState("start", "none", <<>>)]
    /\ lock = [k \in Keys |-> 0]
    /\ invocations = <<>>
    /\ MainIdle /\ AggIdle /\ QueryIdle

\* the first lookup of load_orders(*k) by pass p
CacheLookup(p, k) ==
    /\ passes[p].pc = "start"
    /\ \/ /\ Fresh(cache[k], now)
          /\ passes' = [passes EXCEPT ![p] = PassState("returned", "lookup", cache[k].value)]
          /\ cache' = [cache EXCEPT ![k] = OnHit(cache[k], now)]
       \/ /\ ~Fresh(cache[k], now)
          /\ passes' = [passes EXCEPT ![p] = PassState("waiting", "none", <<>>)]
          /\ cache' = cache
    /\ UNCHANGED <<now, ticks, last, lock, invocations, mainVars, aggVars, queryVars>>

\* pass p takes the compute lock of key k
AcquireLock(p, k) ==
    /\ passes[p].pc = "waiting"
    /\ LockFree(lock, k)
    /\ lock' = [lock EXCEPT ![k] = p]
    /\ passes' = [passes EXCEPT ![p] = PassState("locked", "none", <<>>)]
    /\ UNCHANGED <<now, ticks, cache, last, invocations, mainVars, aggVars, queryVars>>

\* under the lock, pass p looks the key up again: another pass may have stored it;
\* otherwise it calls the body of load_orders, which invokes run_query
Recheck(p, k) ==
    /\ passes[p].pc = "locked"
    /\ \/ /\ Fresh(cache[k], now)
          /\ passes' = [passes EXCEPT ![p] = PassState("returned", "recheck", cache[k].value)]
          /\ cache' = [cache EXCEPT ![k] = OnHit(cache[k], now)]
          /\ lock' = [lock EXCEPT ![k] = 0]
          /\ invocations' = invocations
       \/ /\ ~Fresh(cache[k], now)
          /\ passes' = [passes EXCEPT ![p] = PassState("computing", "none", <<>>)]
          /\ invocations' = Append(invocations, p)
          /\ UNCHANGED <<cache, lock>>
    /\ UNCHANGED <<now, ticks, last, mainVars, aggVars, queryVars>>

\* run_query returns to pass p: the enriched table is stored and the lock released
QueryReturns(p, k) ==
    /\ passes[p].pc = "computing"
    /\ \E raw \in QueryResults :
        /\ cache' = [cache EXCEPT ![k] = [value |-> load_orders_body(raw),
                                          computed_at |-> now]]
        /\ passes' = [passes EXCEPT ![p] =
                          PassState("returned", "computed", load_orders_body(raw))]
    /\ lock' = [lock EXCEPT ![k] = 0]
    /\ UNCHANGED <<now, ticks, last, invocations, mainVars, aggVars, queryVars>>

\* run_query raises in pass p: nothing is stored, the lock is released, the exception
\* leaves load_orders
QueryRaises(p, k) ==
    /\ passes[p].pc = "computing"
    /\ passes' = [passes EXCEPT ![p] = PassState("raised", "none", <<>>)]
    /\ lock' = [lock EXCEPT ![k] = 0]
    /\ UNCHANGED <<now, ticks, cache, last, invocations, mainVars, aggVars, queryVars>>

NextConcurrent ==
    \E p \in Passes, k \in Keys :
        \/ CacheLookup(p, k)
        \/ AcquireLock(p, k)
        \/ Recheck(p, k)
        \/ QueryReturns(p, k)
        \/ QueryRaises(p, k)

SpecConcurrent == InitConcurrent /\ [][NextConcurrent]_vars

PassesAt(at) == {p \in Passes : passes[p].pc = at}
PassesVia(via) == {p \in Passes : passes[p].via = via}

\* C11 as stated: however the passes overlap, run_query is invoked at most once for
\* the key.
C11_AtMostOneInvocation == Len(invocations) <= 1

\* C11 as amended: passes that overlap on one key never run run_query at the same
\* time, at most one of them computes a value that is stored, every pass that did not
\* compute returns that stored value, and each invocation of run_query beyond the first
\* follows one that raised.
C11_OneComputationAtATime ==
    /\ Cardinality(PassesAt("computing")) + Cardinality(PassesVia("computed")) <= 1
    /\ Len(invocations) <= 1 + Cardinality(PassesAt("raised"))
    /\ Len(invocations) = Cardinality(PassesAt("computing"))
                          + Cardinality(PassesVia("computed"))
                          + Cardinality(PassesAt("raised"))
    /\ \A p \in PassesVia("recheck") \cup PassesVia("lookup") :
          \A k \in Keys : cache[k] # None /\ passes[p].value = cache[k].value

\* two passes missed together; one computed and stored, the other, which waited for
\* the lock, returned the stored table without invoking run_query
C11_Witness ==
    /\ Cardinality(PassesVia("computed")) = 1
    /\ Cardinality(PassesVia("recheck")) >= 1
    /\ Len(invocations) = 1

\* ------------------------------------------------------------- Enrichment Stage

\* the table load_orders hands to enrich_orders: the result set with ORDER_DATE
\* converted, no STATUS_LABEL yet
Converted(raw) ==
    [i \in 1..Len(raw) |->
        [ORDER_KEY   |-> i,
         ORDER_DATE  |-> to_datetime(raw[i].date),
         STATUS      |-> raw[i].status,
         PRIORITY    |-> raw[i].priority,
         TOTAL_PRICE |-> raw[i].amount]]

\* what the caller's table holds after enrich_orders(t): the function assigns the new
\* column to df.copy(), never to its argument
InputAfterEnrich(t) == t

EnrichRows == RawRows({20200105}, {"F", "O", "P", "X"}, {"HIGH"}, {100, 250})

InitEnrich ==
    /\ df \in {Converted(raw) : raw \in SeqsUpTo(EnrichRows, MaxRows)}
    /\ kpi = None /\ yearly = None /\ pivot = None /\ status_cnt = None /\ enriched = None
    /\ MainIdle /\ CacheIdle /\ QueryIdle

\* one call enrich_orders(df)
EnrichOrders ==
    /\ enriched = None
    /\ enriched' = [input |-> df, out |-> enrich_orders(df)]
    /\ df' = InputAfterEnrich(df)
    /\ UNCHANGED <<kpi, yearly, pivot, status_cnt, mainVars, cacheVars, queryVars>>

NextEnrich == EnrichOrders

SpecEnrich == InitEnrich /\ [][NextEnrich]_vars

OrderColumns == {"ORDER_KEY", "ORDER_DATE", "STATUS", "PRIORITY", "TOTAL_PRICE"}

\* C12: enrich_orders gives every row the STATUS_LABEL Filled / Open / Pending when its
\* STATUS is F / O / P and its raw STATUS code otherwise, keeps the number and order of
\* rows and every other column, leaves the table it was given as it was, and returns
\* an empty table as it is.
C12_EnrichTotal ==
    enriched # None =>
        LET in == enriched.input
            out == enriched.out
        IN /\ df = in
           /\ in = <<>> => out = in
           /\ Len(out) = Len(in)
           /\ \A i \in 1..Len(in) :
                /\ DOMAIN out[i] = OrderColumns \cup {"STATUS_LABEL"}
                /\ DOMAIN in[i] = OrderColumns
                /\ \A c \in OrderColumns : out[i][c] = in[i][c]
                /\ in[i].STATUS = "F" => out[i].STATUS_LABEL = "Filled"
                /\ in[i].STATUS = "O" => out[i].STATUS_LABEL = "Open"
                /\ in[i].STATUS = "P" => out[i].STATUS_LABEL = "Pending"
                /\ in[i].STATUS \notin {"F", "O", "P"} =>
                      out[i].STATUS_LABEL = in[i].STATUS

\* a table holding a mapped status and an unmapped one has been enriched
C12_Witness ==
    /\ enriched # None
    /\ \E i, j \in 1..Len(enriched.out) :
          /\ enriched.out[i].STATUS_LABEL = "Pending"
          /\ enriched.out[j].STATUS_LABEL = "X"

====
